---- MODULE Spec2Model ----
(***************************************************************************)
(* Model of the mail monitoring service: EmailService (poll scheduler,     *)
(* poll cycle over an IMAP session, dedup set, notifier), OpenAIService    *)
(* (classifyEmail, testConnection) and the endpoints of AppController.     *)
(*                                                                         *)
(* Every handler the code registers (timer callback, IMAP event handler,   *)
(* parser callback, promise continuation) is one atomic action: Node runs  *)
(* each to completion on a single thread.                                  *)
(***************************************************************************)
EXTENDS Integers, Sequences, FiniteSets, TLC

\* ---- bounds of the model ----
\* Spec: overlapping and successive poll cycles over a small mailbox
MaxCycles == 2      \* poll cycles started in one run
MaxInFlight == 2    \* poll cycles in flight at the same time
MaxUid == 1         \* messages that arrive in the mailbox
MaxYield == 2       \* messages yielded by all fetch streams of one run
\* SpecStream: successive poll cycles whose fetch streams carry several messages
StreamCycles == 2
StreamInFlight == 1
StreamUid == 2
StreamYield == 2
\* SpecControl: the endpoints of the controller, and the report over the whole
\* range of confidence
ControlCycles == 2
ControlInFlight == 1
ControlUid == 1
ControlYield == 1
ControlSounds == 1  \* POST /test-sound is taken while fewer notifier calls were made
\* SpecLifecycle: start-up with or without OPENAI_API_KEY, shutdown and restart
LifeCycles == 2
LifeInFlight == 1
LifeUid == 1
LifeYield == 2
LifeKilled == 1     \* a restart is taken while fewer cycles died with their process
\* SpecManual: the automatic cycle followed by two manual reads
ManualCycles == 3
ManualInFlight == 1
ManualUid == 1
ManualYield == 1
\* SpecAlert: the pulses of test sounds and the commands each pulse runs
AlertSounds == 2
AlertExecs == 2     \* a pulse is taken while fewer pulses have commands running
\* SpecNotifier: successive poll cycles and the deferred pulses of the notifier
NotifierCycles == 2
NotifierInFlight == 1
NotifierUid == 1
NotifierYield == 1

\* ---- program constants ----
maxBeeps == 10

NULL == 0

VARIABLES
    app,              \* lifecycle of the EmailService instance
    isMonitoring,     \* EmailService.isMonitoring
    intervalId,       \* EmailService.intervalId (NULL or a timer of `timers`)
    timers,           \* interval timers armed in the event loop
    processedEmails,  \* EmailService.processedEmails
    mailbox,          \* uids of the UNSEEN messages of INBOX that match the subject
    cycles,           \* one record per readEmailsBySubject call, in start order
    chains,           \* the notifier: pending setTimeout(playBeep) timers (FIFO,
                      \* the beepCount of each) and what it has done so far
    lastOp            \* the handler that ran last (history, read by no handler)

vars == <<app, isMonitoring, intervalId, timers, processedEmails, mailbox,
          cycles, chains, lastOp>>

\* ---- helpers ----
RECURSIVE SortedSeq(_)
SortedSeq(S) ==
    IF S = {} THEN <<>>
    ELSE LET m == CHOOSE x \in S : \A y \in S : x <= y
         IN <<m>> \o SortedSeq(S \ {m})

Range(s) == {s[i] : i \in 1..Len(s)}

\* What the last handler was and what it printed: the number in the report
\* header (hdr), the classification block (cls) and the error block (err).
\* The entries of Classified and testOpenAI carry further fields.
Out(name, c, i, hdr, reply, cls, err) ==
    [op |-> name, c |-> c, i |-> i, hdr |-> hdr, reply |-> reply,
     cls |-> cls, err |-> err]
Op(name, c) == Out(name, c, 0, 0, "", "none", FALSE)

\* ---- the notifier ----
\* playNotificationSound: beepCount = 0, then playBeep() runs synchronously: it
\* emits the first pulse, increments beepCount and schedules itself.
\* The commands a pulse can run, in the order of the nested exec callbacks:
\* fallback(m) is the command started by the error callback of m, "marker" the
\* three console.log lines
Methods == {"afplay Ping", "afplay Glass", "powershell beep", "beep"}

\* (faulty variant) the Linux beep is tried before the Windows beep
fallbackLinuxFirst(method) ==
    CASE method = "afplay Ping"     -> "afplay Glass"
      [] method = "afplay Glass"    -> "beep"
      [] method = "beep"            -> "powershell beep"
      [] OTHER                      -> "marker"

fallback(method) ==
    CASE method = "afplay Ping"     -> "afplay Glass"
      [] method = "afplay Glass"    -> "powershell beep"
      [] method = "powershell beep" -> "beep"
      [] OTHER                      -> "marker"

\* one pulse: exec('afplay .../Ping.aiff', callback) is started; execs holds,
\* for every pulse whose commands have not all returned, the commands started
\* so far
pulse(q) == [q EXCEPT !.pulses = @ + 1, !.execs = Append(@, <<"afplay Ping">>)]

playNotificationSound(q) ==
    pulse([q EXCEPT !.pending = Append(@, 1), !.calls = @ + 1])

\* (faulty variant) one notification for the whole batch
playOnce(q, n) == playNotificationSound(q)

\* for (let i = 0; i < newEmails.length; i++) this.playNotificationSound()
RECURSIVE playTimes(_, _)
playTimes(q, n) == IF n = 0 THEN q ELSE playTimes(playNotificationSound(q), n - 1)

\* (faulty variant) the limit is tested with <=: one pulse too many
playBeepOneMore ==
    /\ chains.pending # <<>>
    /\ LET beepCount == Head(chains.pending)
       IN chains' = IF beepCount <= maxBeeps
                    THEN pulse([chains EXCEPT
                            !.pending = Append(Tail(@), beepCount + 1)])
                    ELSE [chains EXCEPT
                            !.pending = Tail(@),
                            !.completed = @ + 1]
    /\ lastOp' = Op("playBeep", 0)
    /\ UNCHANGED <<app, isMonitoring, intervalId, timers, processedEmails,
                   mailbox, cycles>>

\* A deferred playBeep fires: timers of equal delay fire in scheduling order.
\* Below maxBeeps it emits a pulse and schedules itself again; at maxBeeps it
\* logs that the sequence is completed.
playBeep ==
    /\ chains.pending # <<>>
    /\ LET beepCount == Head(chains.pending)
       IN chains' = IF beepCount < maxBeeps
                    THEN pulse([chains EXCEPT
                            !.pending = Append(Tail(@), beepCount + 1)])
                    ELSE [chains EXCEPT
                            !.pending = Tail(@),
                            !.completed = @ + 1]
    /\ lastOp' = Op("playBeep", 0)
    /\ UNCHANGED <<app, isMonitoring, intervalId, timers, processedEmails,
                   mailbox, cycles>>

\* The callback of an exec: the last command started for pulse e has returned,
\* with an error or without. On an error the next command is started, or,
\* after the last one, the marker is printed; without an error nothing more is
\* done for the pulse.
execCallback(e, error) ==
    LET tried == chains.execs[e]
        next == fallback(tried[Len(tried)])
        rest == [k \in 1..(Len(chains.execs) - 1) |->
                    IF k < e THEN chains.execs[k] ELSE chains.execs[k + 1]]
    IN
    /\ chains' = IF error /\ next # "marker"
                 THEN [chains EXCEPT !.execs[e] = Append(tried, next)]
                 ELSE [chains EXCEPT !.execs = rest]
    /\ lastOp' = [op |-> "exec", c |-> 0, tried |-> tried, error |-> error,
                  started |-> IF error /\ next # "marker" THEN <<next>> ELSE <<>>,
                  marker |-> error /\ next = "marker"]
    /\ UNCHANGED <<app, isMonitoring, intervalId, timers, processedEmails,
                   mailbox, cycles>>

\* ---- the poll cycle ----
NewCycle(manual) ==
    [ manual      |-> manual,
      pc          |-> "connecting",
      settled     |-> "pending",
      session     |-> "none",
      newEmails   |-> <<>>,
      emailCount  |-> 0,
      fetchErr    |-> FALSE,
      msgs        |-> <<>>,
      sounds      |-> 0,
      answer      |-> "none",
      alive       |-> TRUE,
      connects    |-> 1,
      ends        |-> 0,
      seenAtStart |-> processedEmails ]

NewMsg(uid) ==
    [ uid     |-> uid,
      bodyEnd |-> FALSE,
      attrs   |-> FALSE,
      parse   |-> "none",
      parses  |-> 0,
      reports |-> 0,
      calls   |-> 0 ]

\* resolve()/reject() of the cycle's promise: only the first call settles it.
Settle(cy, how) == IF cy.settled = "pending" THEN how ELSE cy.settled

\* The caller awaiting the promise when it rejects. checkForNewEmails catches
\* and logs; AppController.readEmails catches and answers in-band. Either way
\* the process keeps running. (An unhandled rejection would end the process.)
\* (faulty variant) checkForNewEmails without its try/catch: the rejection is
\* unhandled and ends the process
checkForNewEmailsNoCatch == "crashed"

checkForNewEmailsCatch == app
readEmailsCatch == app
Rejected(cy) ==
    IF cy.settled # "pending" THEN app
    ELSE IF cy.manual THEN readEmailsCatch ELSE checkForNewEmailsCatch

\* (faulty variant) readEmails without its try/catch: the rejection leaves the
\* handler as an exception
readEmailsResponseNoCatch(cy, how) ==
    IF cy.settled # "pending" \/ ~cy.manual THEN cy.answer
    ELSE IF how = "resolved" THEN "Successfully processed emails"
    ELSE "exception"

\* What POST /read-emails answers when the promise of its cycle settles (a
\* timer-driven cycle answers nobody, a settled promise stays as it is).
readEmailsResponse(cy, how) ==
    IF cy.settled # "pending" \/ ~cy.manual THEN cy.answer
    ELSE IF how = "resolved" THEN "Successfully processed emails"
    ELSE "Error reading emails"

\* readEmailsBySubject up to imap.connect()
readEmailsBySubject(manual) == Append(cycles, NewCycle(manual))

\* (faulty variant) the filter is dropped: every search result is fetched
filterNewKeepsAll(results) == results

\* results.filter((uid) => !this.processedEmails.has(uid.toString()))
filterNew(results) == SelectSeq(results, LAMBDA uid : uid \notin processedEmails)

\* ---- the scheduler ----
\* setInterval returns a timer the event loop has not armed before
FreshTimer == CHOOSE t \in 1..(Cardinality(timers) + 1) : t \notin timers

\* private checkForNewEmails up to the first await: the cycle is started; its
\* rejection is caught when the promise settles (see Rejected).
checkForNewEmails == cycles' = readEmailsBySubject(FALSE)

\* (faulty variant) start without the isMonitoring test
startUnguarded ==
    /\ isMonitoring' = TRUE
    /\ checkForNewEmails
    /\ intervalId' = FreshTimer
    /\ timers' = timers \cup {FreshTimer}

\* (faulty variant) the first check is left to the first timer tick
startWaitsForTick ==
    IF isMonitoring
    THEN UNCHANGED <<isMonitoring, intervalId, timers, cycles>>
    ELSE /\ isMonitoring' = TRUE
         /\ intervalId' = FreshTimer
         /\ timers' = timers \cup {FreshTimer}
         /\ UNCHANGED cycles

startEmailMonitoring ==
    IF isMonitoring
    THEN UNCHANGED <<isMonitoring, intervalId, timers, cycles>>
    ELSE /\ isMonitoring' = TRUE
         /\ checkForNewEmails
         /\ intervalId' = FreshTimer
         /\ timers' = timers \cup {FreshTimer}

\* (faulty variant) stop without clearInterval
stopKeepsTimer ==
    IF ~isMonitoring
    THEN UNCHANGED <<isMonitoring, intervalId, timers, cycles>>
    ELSE /\ isMonitoring' = FALSE
         /\ UNCHANGED <<intervalId, timers, cycles>>

\* (faulty variant) stop that also tears down the cycles in flight
stopCancelsCycles ==
    IF ~isMonitoring
    THEN UNCHANGED <<isMonitoring, intervalId, timers, cycles>>
    ELSE /\ isMonitoring' = FALSE
         /\ timers' = timers \ {intervalId}
         /\ intervalId' = NULL
         /\ cycles' = [c \in 1..Len(cycles) |->
                         [cycles[c] EXCEPT !.pc = "closed", !.session = "ended"]]

stopEmailMonitoring ==
    IF ~isMonitoring
    THEN UNCHANGED <<isMonitoring, intervalId, timers, cycles>>
    ELSE /\ isMonitoring' = FALSE
         /\ IF intervalId # NULL
            THEN /\ timers' = timers \ {intervalId}
                 /\ intervalId' = NULL
            ELSE UNCHANGED <<intervalId, timers>>
         /\ UNCHANGED cycles

onModuleInit ==
    /\ app = "constructed"
    /\ app' = "running"
    /\ startEmailMonitoring
    /\ lastOp' = Op("onModuleInit", 0)
    /\ UNCHANGED <<processedEmails, mailbox, chains>>

\* (faulty variant) the set is restored from a ledger that outlives the process
newProcessedEmailsRestored == {1}

\* private processedEmails = new Set<string>()
newProcessedEmails == {}

\* process.env.OPENAI_API_KEY: unset, set to '' or set to a key; <<>> when
\* undefined, else <<the string>>
Keys == {"absent", "empty", "present"}
apiKey(key) ==
    CASE key = "present" -> <<"sk-key">>
      [] key = "empty"   -> <<"">>
      [] OTHER           -> <<>>

\* (faulty variant) the missing key is only logged
openaiOnModuleInitLogsOnly(key) == [threw |-> FALSE, client |-> TRUE]

\* OpenAIService.onModuleInit: if (!apiKey) throw; else this.openai = new OpenAI
openaiOnModuleInit(key) ==
    IF apiKey(key) = <<>> \/ apiKey(key)[1] = ""
    THEN [threw |-> TRUE, client |-> FALSE]
    ELSE [threw |-> FALSE, client |-> TRUE]

\* The module is initialised: the framework calls the onModuleInit hooks of
\* the providers in one synchronous pass and, when a hook has thrown, ends the
\* process before any event is delivered. EmailService.onModuleInit may have
\* been called in that pass (hookRan): the check it launched dies with the
\* process, still connecting.
bootstrap ==
    /\ app = "constructed"
    /\ \E key \in Keys :
         LET init == openaiOnModuleInit(key) IN
         IF init.threw
         THEN /\ app' = "exited"
              /\ \E hookRan \in BOOLEAN :
                   /\ cycles' = IF hookRan
                                THEN Append(cycles, [NewCycle(FALSE) EXCEPT !.alive = FALSE])
                                ELSE cycles
                   /\ lastOp' = [op |-> "bootstrap", key |-> key,
                                 c |-> IF hookRan THEN Len(cycles) + 1 ELSE 0,
                                 threw |-> TRUE, client |-> init.client]
              /\ UNCHANGED <<isMonitoring, intervalId, timers>>
         ELSE /\ app' = "running"
              /\ startEmailMonitoring
              /\ lastOp' = [op |-> "bootstrap", key |-> key, c |-> Len(cycles) + 1,
                            threw |-> FALSE, client |-> init.client]
    /\ UNCHANGED <<processedEmails, mailbox, chains>>

\* EmailService.onModuleDestroy, called when the application is closed
onModuleDestroy ==
    /\ app = "running"
    /\ app' = "destroyed"
    /\ stopEmailMonitoring
    /\ lastOp' = Op("onModuleDestroy", 0)
    /\ UNCHANGED <<processedEmails, mailbox, chains>>

\* The process ends and a new one is launched: every field starts from its
\* initialiser, the timers and the cycles of the old process are gone (their
\* records stay as history, alive = FALSE); the mailbox is the server's.
Restart ==
    /\ app # "constructed"
    /\ app' = "constructed"
    /\ isMonitoring' = FALSE
    /\ intervalId' = NULL
    /\ timers' = {}
    /\ processedEmails' = newProcessedEmails
    /\ chains' = [pending |-> <<>>, calls |-> 0, pulses |-> 0, completed |-> 0,
                  execs |-> <<>>]
    /\ cycles' = [c \in 1..Len(cycles) |-> [cycles[c] EXCEPT !.alive = FALSE]]
    /\ lastOp' = Op("restart", 0)
    /\ UNCHANGED mailbox

\* POST /start-monitoring
startMonitoring ==
    /\ app = "running"
    /\ startEmailMonitoring
    /\ lastOp' = Op("start", 0)
    /\ UNCHANGED <<app, processedEmails, mailbox, chains>>

\* (faulty variant) deactivation also forgets the processed messages
stopMonitoringForgets ==
    /\ app = "running"
    /\ stopEmailMonitoring
    /\ processedEmails' = {}
    /\ lastOp' = Op("stop", 0)
    /\ UNCHANGED <<app, mailbox, chains>>

\* POST /stop-monitoring
stopMonitoring ==
    /\ app = "running"
    /\ stopEmailMonitoring
    /\ lastOp' = Op("stop", 0)
    /\ UNCHANGED <<app, processedEmails, mailbox, chains>>

\* (faulty variant) a tick is skipped while a cycle is in flight
TimerTickSkipsBusy ==
    /\ \A c \in 1..Len(cycles) : cycles[c].settled # "pending"
    /\ \E t \in timers : checkForNewEmails
    /\ lastOp' = Op("tick", Len(cycles) + 1)
    /\ UNCHANGED <<app, isMonitoring, intervalId, timers, processedEmails,
                   mailbox, chains>>

\* the setInterval callback
TimerTick ==
    /\ \E t \in timers : checkForNewEmails
    /\ lastOp' = Op("tick", Len(cycles) + 1)
    /\ UNCHANGED <<app, isMonitoring, intervalId, timers, processedEmails,
                   mailbox, chains>>

\* (faulty variant) the manual read pauses the scheduler to keep the timer
\* from overlapping it
readEmailsPausesScheduler ==
    /\ app = "running"
    /\ cycles' = readEmailsBySubject(TRUE)
    /\ isMonitoring' = FALSE
    /\ timers' = timers \ {intervalId}
    /\ intervalId' = NULL
    /\ lastOp' = Op("readEmails", Len(cycles) + 1)
    /\ UNCHANGED <<app, processedEmails, mailbox, chains>>

\* POST /read-emails up to the await
readEmails ==
    /\ app = "running"
    /\ cycles' = readEmailsBySubject(TRUE)
    /\ lastOp' = Op("readEmails", Len(cycles) + 1)
    /\ UNCHANGED <<app, isMonitoring, intervalId, timers, processedEmails,
                   mailbox, chains>>

\* GET /monitoring-status
getMonitoringStatus ==
    [message |-> "Email monitoring status", isMonitoring |-> isMonitoring]

\* POST /test-sound: testNotificationSound
testSound ==
    /\ app = "running"
    /\ chains' = playNotificationSound(chains)
    /\ lastOp' = Op("testSound", 0)
    /\ UNCHANGED <<app, isMonitoring, intervalId, timers, processedEmails,
                   mailbox, cycles>>

\* ---- the environment ----
\* A new unread message with the monitored subject is delivered to INBOX; the
\* server gives it the next uid.
MailArrives ==
    /\ mailbox' = mailbox \cup {Cardinality(mailbox) + 1}
    /\ lastOp' = Op("mail", 0)
    /\ UNCHANGED <<app, isMonitoring, intervalId, timers, processedEmails,
                   cycles, chains>>

\* ---- the classifier (OpenAIService.classifyEmail) ----
\* What the backend does with one request:
\*   "down"             chat.completions.create rejects (network, auth)
\*   "empty"            the reply carries no content
\*   "garbage"          the content is not JSON
\*   "noClassification" JSON without the classification field
\*   "noIndicators"     JSON without the indicators object
\*   "noSystemIndicators", "noHumanIndicators"
\*                      JSON whose indicators object lacks that list
\*   "noConfidence"     JSON without the confidence field
\*   "noReasoning"      JSON without the reasoning field
\*   "full"             JSON with every field of EmailClassification
Replies == {"down", "empty", "garbage", "noClassification", "noIndicators",
            "noSystemIndicators", "noHumanIndicators", "noConfidence",
            "noReasoning", "full"}

\* the fields of interface EmailClassification
AllFields == {"classification", "confidence", "reasoning",
              "systemIndicators", "humanIndicators"}

\* the fields the JSON payload of a reply carries
Fields(reply) ==
    CASE reply = "full"               -> AllFields
      [] reply = "noClassification"   -> AllFields \ {"classification"}
      [] reply = "noConfidence"       -> AllFields \ {"confidence"}
      [] reply = "noReasoning"        -> AllFields \ {"reasoning"}
      [] reply = "noIndicators"       -> AllFields \ {"systemIndicators", "humanIndicators"}
      [] reply = "noSystemIndicators" -> AllFields \ {"systemIndicators"}
      [] reply = "noHumanIndicators"  -> AllFields \ {"humanIndicators"}
      [] OTHER                        -> {}

\* classifyEmail: TRUE when it returns the parsed object, FALSE when it throws
\* (create rejected, !result, JSON.parse threw, or
\* classification.classification.toUpperCase() threw on the log line). No
\* other field of the payload is read.
classifyEmail(reply) ==
    /\ reply \notin {"down", "empty", "garbage"}
    /\ "classification" \in Fields(reply)

\* What the backend does with the request of testConnection:
\*   "down"        chat.completions.create rejects
\*   "noChoice"    the reply has no choices[0] (or no message)
\*   "nullContent" message.content is null
\*   "emptyString" message.content is ''
\*   "hello"       message.content is a non-empty string
\* an optional string field: <<>> when undefined, else <<the value>>;
\* the JavaScript a || b takes b when a is undefined or ''
orElse(field, dflt) == IF field = <<>> \/ field[1] = "" THEN dflt ELSE field[1]

TestReplies == {"down", "noChoice", "nullContent", "emptyString", "hello"}

\* response.choices[0]?.message?.content: <<>> when undefined or null, else
\* <<the string>>
Content(reply) ==
    CASE reply = "hello"       -> <<"Hello">>
      [] reply = "emptyString" -> <<"">>
      [] OTHER                 -> <<>>

\* (faulty variant) testConnection without its try/catch
testConnectionThrows(reply) ==
    IF reply = "down"
    THEN [raised |-> TRUE, value |-> FALSE]
    ELSE [raised |-> FALSE,
          value  |-> Content(reply) # <<>> /\ Content(reply)[1] # ""]

\* testConnection: hasResponse = !!content; the catch returns false
testConnection(reply) ==
    IF reply = "down"
    THEN [raised |-> FALSE, value |-> FALSE]
    ELSE [raised |-> FALSE,
          value  |-> Content(reply) # <<>> /\ Content(reply)[1] # ""]

\* (faulty variant) the sample is classified whatever the connection test said
testOpenAIResponseNoGate(supplied, conn, reply) ==
    IF supplied
    THEN IF classifyEmail(reply)
         THEN [success |-> TRUE, message |-> "OpenAI test successful",
               classification |-> TRUE, called |-> TRUE, threw |-> FALSE]
         ELSE [success |-> FALSE, message |-> "OpenAI test failed",
               classification |-> FALSE, called |-> TRUE, threw |-> FALSE]
    ELSE [success |-> TRUE, message |-> "OpenAI connection test successful",
          classification |-> FALSE, called |-> FALSE, threw |-> FALSE]

\* AppController.testOpenAI: the response for a request body that supplies a
\* sample (from, subject or body) or none, a backend reply to the connection
\* test and one to the classification request. called: classifyEmail was
\* invoked; threw: an exception left the handler.
testOpenAIResponse(supplied, conn, reply) ==
    LET connectionTest == testConnection(conn) IN
    IF connectionTest.raised
    THEN [success |-> FALSE, message |-> "OpenAI test failed", classification |-> FALSE,
          called |-> FALSE, threw |-> FALSE]
    ELSE IF ~connectionTest.value
    THEN [success |-> FALSE, message |-> "OpenAI connection test failed",
          classification |-> FALSE, called |-> FALSE, threw |-> FALSE]
    ELSE IF supplied
    THEN IF classifyEmail(reply)
         THEN [success |-> TRUE, message |-> "OpenAI test successful",
               classification |-> TRUE, called |-> TRUE, threw |-> FALSE]
         ELSE [success |-> FALSE, message |-> "OpenAI test failed",
               classification |-> FALSE, called |-> TRUE, threw |-> FALSE]
    ELSE [success |-> TRUE, message |-> "OpenAI connection test successful",
          classification |-> FALSE, called |-> FALSE, threw |-> FALSE]

\* the request body of POST /test-openai: { from?, subject?, body? }
TestBodies ==
    [ from    : {<<>>, <<"bob@example.org">>},
      subject : {<<>>, <<"">>, <<"Hi">>},
      body    : {<<>>, <<"see you at noon">>} ]

\* the request bodies sent where the fields do not matter
SampleBodies ==
    { [from |-> <<>>, subject |-> <<>>, body |-> <<>>],
      [from |-> <<"bob@example.org">>, subject |-> <<"Hi">>,
       body |-> <<"see you at noon">>] }

\* if (body.from || body.subject || body.body)
hasSample(body) ==
    \/ orElse(body.from, "") # ""
    \/ orElse(body.subject, "") # ""
    \/ orElse(body.body, "") # ""

\* the argument of classifyEmail in testOpenAI
testOpenAIRequest(body) ==
    [ from    |-> orElse(body.from, "test@example.com"),
      subject |-> orElse(body.subject, "Test Subject"),
      body    |-> orElse(body.body, "This is a test email body.") ]

\* POST /test-openai for one request body. The handler reads and writes no
\* field of EmailService, so its awaits interleave with nothing it depends on.
\* The backend replies to a classification request only if the handler sends
\* one ("" otherwise); sent is the request, if one was sent.
testOpenAIOf(body) ==
    /\ app = "running"
    /\ \E conn \in TestReplies :
         \E reply \in IF testOpenAIResponse(hasSample(body), conn, "").called
                       THEN Replies ELSE {""} :
             LET resp == testOpenAIResponse(hasSample(body), conn, reply) IN
             lastOp' = [op |-> "testOpenAI", c |-> 0,
                        supplied |-> hasSample(body),
                        body |-> body,
                        conn |-> conn,
                        connectionTest |-> testConnection(conn),
                        reply |-> reply,
                        sent |-> IF resp.called THEN <<testOpenAIRequest(body)>>
                                 ELSE <<>>,
                        resp |-> resp]
    /\ UNCHANGED <<app, isMonitoring, intervalId, timers, processedEmails,
                   mailbox, cycles, chains>>

testOpenAI == \E body \in SampleBodies : testOpenAIOf(body)

\* confidence: number, 0-100
MaxConfidence == 100

\* (faulty variant) the limits are compared with > instead of >=
confidenceLabelStrict(confidence) ==
    IF confidence # <<>> /\ confidence[1] > 80 THEN "High"
    ELSE IF confidence # <<>> /\ confidence[1] > 60 THEN "Medium"
    ELSE "Low"

\* classification.confidence >= 80 ? '(High)' : classification.confidence >= 60
\* ? '(Medium)' : '(Low)'; confidence is <<n>>, or <<>> when the payload has no
\* confidence field (undefined >= 80 is false)
confidenceLabel(confidence) ==
    IF confidence # <<>> /\ confidence[1] >= 80 THEN "High"
    ELSE IF confidence # <<>> /\ confidence[1] >= 60 THEN "Medium"
    ELSE "Low"

\* The rendering after the await (part_002 lines 295-361): the banner and the
\* detail lines (type, confidence with its label, reasoning) are printed, then
\* classification.indicators.systemIndicators.length and
\* classification.indicators.humanIndicators.length are read, which throws
\* into the catch block when indicators or one of its lists is missing.
renderClassification(reply) ==
    IF {"systemIndicators", "humanIndicators"} \subseteq Fields(reply)
    THEN [cls |-> "full", err |-> FALSE]
    ELSE [cls |-> "partial", err |-> TRUE]

\* (faulty variant) the catch block swallows the error and prints nothing
renderErrorSilent == [cls |-> "none", err |-> FALSE]

\* the catch (classificationError) block
renderError == [cls |-> "none", err |-> TRUE]

\* ---- handlers of one poll cycle ----
Cycles == 1..Len(cycles)

RECURSIVE SumMsgs(_)
SumMsgs(n) == IF n = 0 THEN 0 ELSE Len(cycles[n].msgs) + SumMsgs(n - 1)
Yielded == SumMsgs(Len(cycles))

LastDone(cy) ==
    IF Len(cy.msgs) = 0
    THEN TRUE
    ELSE cy.msgs[Len(cy.msgs)].bodyEnd /\ cy.msgs[Len(cy.msgs)].attrs

Frame == UNCHANGED <<isMonitoring, intervalId, timers, mailbox>>

\* imap.once('ready'): openBox is issued
Ready(c) ==
    /\ cycles[c].pc = "connecting"
    /\ cycles' = [cycles EXCEPT ![c].pc = "opening", ![c].session = "open"]
    /\ lastOp' = Op("ready", c)
    /\ UNCHANGED <<processedEmails, chains>>
    /\ UNCHANGED app
    /\ Frame

\* imap.once('error'): the connection failed or dropped; reject(err)
ImapError(c) ==
    /\ \/ cycles[c].pc = "connecting"
       \/ cycles[c].session = "open"
    /\ cycles' = [cycles EXCEPT ![c].pc = "closed",
                                ![c].session = "broken",
                                ![c].settled = Settle(cycles[c], "rejected"),
                                ![c].answer = readEmailsResponse(cycles[c], "rejected")]
    /\ lastOp' = Op("imapError", c)
    /\ UNCHANGED <<processedEmails, chains>>
    /\ app' = Rejected(cycles[c])
    /\ Frame

\* the openBox callback
OpenBoxCb(c) ==
    /\ cycles[c].pc = "opening"
    /\ \E err \in BOOLEAN :
         IF err
         THEN /\ cycles' = [cycles EXCEPT ![c].pc = "closed",
                                          ![c].settled = Settle(cycles[c], "rejected"),
                                          ![c].answer = readEmailsResponse(cycles[c], "rejected")]
              /\ app' = Rejected(cycles[c])
         ELSE /\ cycles' = [cycles EXCEPT ![c].pc = "searching"]
              /\ UNCHANGED app
    /\ lastOp' = Op("openBox", c)
    /\ UNCHANGED <<processedEmails, chains>>
    /\ Frame

\* the search callback with err set
SearchErr(c) ==
    /\ cycles[c].pc = "searching"
    /\ cycles' = [cycles EXCEPT ![c].pc = "closed",
                                ![c].settled = Settle(cycles[c], "rejected"),
                                ![c].answer = readEmailsResponse(cycles[c], "rejected")]
    /\ lastOp' = Op("searchErr", c)
    /\ UNCHANGED <<processedEmails, chains>>
    /\ app' = Rejected(cycles[c])
    /\ Frame

\* (faulty variant) the session is ended and the promise left pending
EndOnly(c) ==
    [cycles EXCEPT ![c].pc = "closed",
                   ![c].session = "ended",
                   ![c].ends = @ + 1]

\* imap.end() followed by resolve()
EndAndResolve(c) ==
    [cycles EXCEPT ![c].pc = "closed",
                   ![c].session = "ended",
                   ![c].ends = @ + 1,
                   ![c].settled = Settle(cycles[c], "resolved"),
                   ![c].answer = readEmailsResponse(cycles[c], "resolved")]

\* (faulty variant) the test sound is played for timer-driven checks too
manualTestSoundAlways(isManualCheck, q) == playNotificationSound(q)

\* if (isManualCheck) this.playNotificationSound()
manualTestSound(isManualCheck, q) ==
    IF isManualCheck THEN playNotificationSound(q) ELSE q

\* the search callback with results; sounds records the playNotificationSound
\* calls it made
SearchCb(c) ==
    /\ cycles[c].pc = "searching"
    /\ LET results == SortedSeq(mailbox)
           newEmails == filterNew(results)
       IN IF Len(results) = 0
          THEN /\ cycles' = EndAndResolve(c)
               /\ UNCHANGED chains
          ELSE IF Len(newEmails) = 0
          THEN /\ chains' = manualTestSound(cycles[c].manual, chains)
               /\ cycles' = [EndAndResolve(c) EXCEPT
                                ![c].sounds = chains'.calls - chains.calls]
          ELSE /\ chains' = playTimes(chains, Len(newEmails))
               /\ cycles' = [cycles EXCEPT ![c].pc = "fetching",
                                           ![c].newEmails = newEmails,
                                           ![c].sounds = chains'.calls - chains.calls]
    /\ lastOp' = Op("search", c)
    /\ UNCHANGED processedEmails
    /\ UNCHANGED app
    /\ Frame

\* fetch.on('message'): the stream yields the next message
FetchMessage(c) ==
    LET cy == cycles[c] IN
    /\ cy.pc = "fetching"
    /\ ~cy.fetchErr
    /\ Len(cy.msgs) < Len(cy.newEmails)
    /\ LastDone(cy)
    /\ cycles' = [cycles EXCEPT
                    ![c].emailCount = cy.emailCount + 1,
                    ![c].msgs = Append(cy.msgs, NewMsg(cy.newEmails[Len(cy.msgs) + 1]))]
    /\ lastOp' = Op("message", c)
    /\ UNCHANGED <<processedEmails, chains>>
    /\ UNCHANGED app
    /\ Frame

\* stream.once('end') of the message body: simpleParser is started
BodyEnd(c) ==
    LET cy == cycles[c]
        i == Len(cy.msgs) IN
    /\ cy.pc = "fetching"
    /\ i > 0
    /\ ~cy.msgs[i].bodyEnd
    /\ cycles' = [cycles EXCEPT ![c].msgs[i].bodyEnd = TRUE,
                                ![c].msgs[i].parse = "pending"]
    /\ lastOp' = Op("bodyEnd", c)
    /\ UNCHANGED <<processedEmails, chains>>
    /\ UNCHANGED app
    /\ Frame

\* (faulty variant) the attributes handler sets the seen flag (addFlags)
AttributesMarksSeen(c) ==
    LET cy == cycles[c]
        i == Len(cy.msgs) IN
    /\ cy.pc = "fetching"
    /\ i > 0
    /\ ~cy.msgs[i].attrs
    /\ cycles' = [cycles EXCEPT ![c].msgs[i].attrs = TRUE]
    /\ processedEmails' = processedEmails \cup {cy.msgs[i].uid}
    /\ mailbox' = mailbox \ {cy.msgs[i].uid}
    /\ lastOp' = Op("attributes", c)
    /\ UNCHANGED <<chains, app, isMonitoring, intervalId, timers>>

\* msg.once('attributes'): this.processedEmails.add(attrs.uid.toString())
Attributes(c) ==
    LET cy == cycles[c]
        i == Len(cy.msgs) IN
    /\ cy.pc = "fetching"
    /\ i > 0
    /\ ~cy.msgs[i].attrs
    /\ cycles' = [cycles EXCEPT ![c].msgs[i].attrs = TRUE]
    /\ processedEmails' = processedEmails \cup {cy.msgs[i].uid}
    /\ lastOp' = Op("attributes", c)
    /\ UNCHANGED chains
    /\ UNCHANGED app
    /\ Frame

\* (faulty variant) the error handler marks the whole batch as processed
FetchErrorMarksBatch(c) ==
    LET cy == cycles[c] IN
    /\ cy.pc = "fetching"
    /\ ~cy.fetchErr
    /\ LastDone(cy)
    /\ cycles' = [cycles EXCEPT ![c].fetchErr = TRUE,
                                ![c].settled = Settle(cy, "rejected"),
                                ![c].answer = readEmailsResponse(cy, "rejected")]
    /\ processedEmails' = processedEmails \cup Range(cy.newEmails)
    /\ lastOp' = Op("fetchError", c)
    /\ UNCHANGED chains
    /\ app' = Rejected(cycles[c])
    /\ Frame

\* fetch.once('error'): the server refused the FETCH command; reject(err)
FetchError(c) ==
    LET cy == cycles[c] IN
    /\ cy.pc = "fetching"
    /\ ~cy.fetchErr
    /\ LastDone(cy)
    /\ cycles' = [cycles EXCEPT ![c].fetchErr = TRUE,
                                ![c].settled = Settle(cy, "rejected"),
                                ![c].answer = readEmailsResponse(cy, "rejected")]
    /\ lastOp' = Op("fetchError", c)
    /\ UNCHANGED <<processedEmails, chains>>
    /\ app' = Rejected(cycles[c])
    /\ Frame

\* (faulty variant) the fetch end resolves and leaves the session open
FetchEndKeepsSession(c) ==
    LET cy == cycles[c] IN
    /\ cy.pc = "fetching"
    /\ LastDone(cy)
    /\ cy.fetchErr \/ Len(cy.msgs) = Len(cy.newEmails)
    /\ cycles' = [cycles EXCEPT ![c].pc = "closed",
                                ![c].settled = Settle(cy, "resolved"),
                                ![c].answer = readEmailsResponse(cy, "resolved")]
    /\ lastOp' = Op("fetchEnd", c)
    /\ UNCHANGED <<processedEmails, chains>>
    /\ UNCHANGED app
    /\ Frame

\* fetch.once('end'): imap.end(); resolve()
FetchEnd(c) ==
    LET cy == cycles[c] IN
    /\ cy.pc = "fetching"
    /\ LastDone(cy)
    /\ cy.fetchErr \/ Len(cy.msgs) = Len(cy.newEmails)
    /\ cycles' = EndAndResolve(c)
    /\ lastOp' = Op("fetchEnd", c)
    /\ UNCHANGED <<processedEmails, chains>>
    /\ UNCHANGED app
    /\ Frame

\* what simpleParser can hand over: from and to are parsed.from?.text and
\* parsed.to?.text, date is a Date when the header is there
ParsedMessages ==
    [ from    : {<<>>, <<"alice@example.org">>},
      to      : {<<>>, <<"inbox@example.org">>},
      subject : {<<>>, <<"">>, <<"Invoice">>},
      date    : {<<>>, <<"Mon Nov 02 2026">>},
      text    : {<<>>, <<"">>, <<"plain text">>},
      html    : {<<>>, <<"<p>markup</p>">>} ]

\* the message parsed where the substitutions do not matter
SampleMessage ==
    [ from |-> <<"alice@example.org">>, to |-> <<"inbox@example.org">>,
      subject |-> <<"Invoice">>, date |-> <<"Mon Nov 02 2026">>,
      text |-> <<"plain text">>, html |-> <<>> ]

\* const body = parsed.text || parsed.html || 'No content available'
body(parsed) == orElse(parsed.text, orElse(parsed.html, "No content available"))

\* the From, To, Subject and Date lines and the body the report prints
report(parsed) ==
    [ from    |-> orElse(parsed.from, "Unknown"),
      to      |-> orElse(parsed.to, "Unknown"),
      subject |-> orElse(parsed.subject, "No Subject"),
      date    |-> orElse(parsed.date, "Unknown Date"),
      body    |-> body(parsed) ]

\* (faulty variant) the classifier is handed the parsed fields as they are
classifyRequestRaw(parsed) ==
    [ from    |-> IF parsed.from = <<>> THEN "" ELSE parsed.from[1],
      subject |-> IF parsed.subject = <<>> THEN "" ELSE parsed.subject[1],
      body    |-> IF parsed.text = <<>> THEN "" ELSE parsed.text[1] ]

\* the argument of classifyEmail
classifyRequest(parsed) ==
    [ from    |-> orElse(parsed.from, "Unknown"),
      subject |-> orElse(parsed.subject, "No Subject"),
      body    |-> body(parsed) ]

\* the simpleParser callback for a message that parsed, up to the await of
\* classifyEmail: the report is printed and the request sent
Parsed(c, i, parsed) ==
    LET cy == cycles[c] IN
    /\ cy.msgs[i].parse = "pending"
    /\ cycles' = [cycles EXCEPT ![c].msgs[i].parse = "classifying",
                                ![c].msgs[i].parses = cy.msgs[i].parses + 1,
                                ![c].msgs[i].reports = cy.msgs[i].reports + 1,
                                ![c].msgs[i].calls = cy.msgs[i].calls + 1]
    /\ lastOp' = [op |-> "parsed", c |-> c, i |-> i, hdr |-> cy.emailCount,
                  reply |-> "", cls |-> "none", err |-> FALSE,
                  parsed |-> parsed, shown |-> report(parsed),
                  sent |-> classifyRequest(parsed)]
    /\ UNCHANGED <<processedEmails, chains>>
    /\ UNCHANGED app
    /\ Frame

\* (faulty variant) a parse error rejects the cycle and ends the session
ParserCbAborts(c, i) ==
    LET cy == cycles[c] IN
    /\ cy.msgs[i].parse = "pending"
    /\ \E err \in BOOLEAN :
         IF err
         THEN /\ cycles' = [cycles EXCEPT ![c].msgs[i].parse = "failed",
                                          ![c].msgs[i].parses = cy.msgs[i].parses + 1,
                                          ![c].pc = "closed",
                                          ![c].settled = Settle(cy, "rejected"),
                                          ![c].answer = readEmailsResponse(cy, "rejected")]
              /\ lastOp' = Out("parseFailed", c, i, 0, "", "none", FALSE)
         ELSE /\ cycles' = [cycles EXCEPT ![c].msgs[i].parse = "classifying",
                                          ![c].msgs[i].parses = cy.msgs[i].parses + 1,
                                          ![c].msgs[i].reports = cy.msgs[i].reports + 1,
                                          ![c].msgs[i].calls = cy.msgs[i].calls + 1]
              /\ lastOp' = Out("parsed", c, i, cy.emailCount, "", "none", FALSE)
    /\ UNCHANGED <<processedEmails, chains>>
    /\ UNCHANGED app
    /\ Frame

\* (faulty variant) the return after the parse error is missing: the report
\* is printed for the unparsed message
ParserCbReportsFailed(c, i) ==
    LET cy == cycles[c] IN
    /\ cy.msgs[i].parse = "pending"
    /\ \E err \in BOOLEAN :
         IF err
         THEN /\ cycles' = [cycles EXCEPT ![c].msgs[i].parse = "failed",
                                          ![c].msgs[i].parses = cy.msgs[i].parses + 1,
                                          ![c].msgs[i].reports = cy.msgs[i].reports + 1]
              /\ lastOp' = Out("parseFailed", c, i, cy.emailCount, "", "none", FALSE)
         ELSE /\ cycles' = [cycles EXCEPT ![c].msgs[i].parse = "classifying",
                                          ![c].msgs[i].parses = cy.msgs[i].parses + 1,
                                          ![c].msgs[i].reports = cy.msgs[i].reports + 1,
                                          ![c].msgs[i].calls = cy.msgs[i].calls + 1]
              /\ lastOp' = Out("parsed", c, i, cy.emailCount, "", "none", FALSE)
    /\ UNCHANGED <<processedEmails, chains>>
    /\ UNCHANGED app
    /\ Frame

\* the simpleParser callback up to the await of classifyEmail: on a parse
\* error it logs and returns; otherwise it prints the report (header, fields,
\* body) and calls classifyEmail
ParserCb(c, i) ==
    LET cy == cycles[c] IN
    /\ cy.msgs[i].parse = "pending"
    /\ \E err \in BOOLEAN :
         IF err
         THEN /\ cycles' = [cycles EXCEPT ![c].msgs[i].parse = "failed",
                                          ![c].msgs[i].parses = cy.msgs[i].parses + 1]
              /\ lastOp' = Out("parseFailed", c, i, 0, "", "none", FALSE)
              /\ UNCHANGED <<processedEmails, chains>>
              /\ UNCHANGED app
              /\ Frame
         ELSE Parsed(c, i, SampleMessage)

\* the simpleParser callback from the await to its end, for a backend reply
\* and the confidence its payload carries (if it carries one); the log entry
\* holds the confidence the returned object has after the rendering (conf) and
\* the confidence line printed (shown, band)
Classified(c, i, reply, confidence) ==
    LET cy == cycles[c]
        conf == IF "confidence" \in Fields(reply) THEN <<confidence>> ELSE <<>>
        out == IF classifyEmail(reply)
               THEN renderClassification(reply)
               ELSE renderError
    IN
    /\ cy.msgs[i].parse = "classifying"
    /\ cycles' = [cycles EXCEPT ![c].msgs[i].parse =
                                 IF out.err THEN "error" ELSE "done"]
    /\ lastOp' = [op |-> "classified", c |-> c, i |-> i, hdr |-> 0,
                  reply |-> reply, cls |-> out.cls, err |-> out.err,
                  conf  |-> IF classifyEmail(reply) THEN conf ELSE <<>>,
                  shown |-> IF out.cls = "none" THEN <<>> ELSE conf,
                  band  |-> IF out.cls = "none" THEN "" ELSE confidenceLabel(conf)]
    /\ UNCHANGED <<processedEmails, chains>>
    /\ UNCHANGED app
    /\ Frame

\* the confidence of the replies drawn where the label does not matter
SampleConfidence == {92}

ClassifyDone(c, i) ==
    \E reply \in Replies : \E confidence \in SampleConfidence :
        Classified(c, i, reply, confidence)

\* ---- the specification ----
Init ==
    /\ app = "constructed"
    /\ isMonitoring = FALSE
    /\ intervalId = NULL
    /\ timers = {}
    /\ processedEmails = newProcessedEmails
    /\ mailbox = {}
    /\ cycles = <<>>
    /\ chains = [pending |-> <<>>, calls |-> 0, pulses |-> 0, completed |-> 0,
                  execs |-> <<>>]
    /\ lastOp = Op("init", 0)

\* The bounds guard the steps that start a cycle, deliver a message or yield
\* one from a fetch stream; every other step is always allowed.
Finished(cy) ==
    /\ cy.pc = "closed"
    /\ \A i \in 1..Len(cy.msgs) : cy.msgs[i].parse \notin {"pending", "classifying"}

InFlight == {c \in Cycles : cycles[c].alive /\ ~Finished(cycles[c])}

Room(maxCycles, maxInFlight) ==
    Len(cycles) < maxCycles /\ Cardinality(InFlight) < maxInFlight

\* the handlers of a cycle run in the process that started it
CycleStep(c, maxYield) ==
    /\ cycles[c].alive
    /\ \/ Ready(c)
       \/ ImapError(c)
       \/ OpenBoxCb(c)
       \/ SearchErr(c)
       \/ SearchCb(c)
       \/ (Yielded < maxYield /\ FetchMessage(c))
       \/ BodyEnd(c)
       \/ Attributes(c)
       \/ FetchError(c)
       \/ FetchEnd(c)
       \/ \E i \in 1..Len(cycles[c].msgs) : ParserCb(c, i)
       \/ \E i \in 1..Len(cycles[c].msgs) : ClassifyDone(c, i)

Bounded(maxCycles, maxInFlight, maxUid, maxYield) ==
    \/ (Room(maxCycles, maxInFlight) /\ onModuleInit)
    \/ ((isMonitoring \/ Room(maxCycles, maxInFlight)) /\ startMonitoring)
    \/ stopMonitoring
    \/ (Room(maxCycles, maxInFlight) /\ TimerTick)
    \/ (Room(maxCycles, maxInFlight) /\ readEmails)
    \/ (Cardinality(mailbox) < maxUid /\ MailArrives)
    \/ \E c \in Cycles : CycleStep(c, maxYield)

Next == Bounded(MaxCycles, MaxInFlight, MaxUid, MaxYield)
Spec == Init /\ [][Next]_vars

\* The events of the mail session of cycle c other than a connection failure:
\* ready, the openBox and search callbacks, and the events of the fetch stream.
MailboxStep(c) ==
    /\ c \in Cycles
    /\ cycles[c].alive
    /\ \/ Ready(c)
       \/ OpenBoxCb(c)
       \/ SearchErr(c)
       \/ SearchCb(c)
       \/ (Yielded < MaxYield /\ FetchMessage(c))
       \/ BodyEnd(c)
       \/ Attributes(c)
       \/ FetchError(c)
       \/ FetchEnd(c)

\* Spec with every mailbox operation of every cycle reporting in the end; the
\* parser and the classifier may take for ever.
SpecLive == Spec /\ \A c \in 1..MaxCycles : WF_vars(MailboxStep(c))

NextStream == Bounded(StreamCycles, StreamInFlight, StreamUid, StreamYield)
SpecStream == Init /\ [][NextStream]_vars

NextControl ==
    \/ Bounded(ControlCycles, ControlInFlight, ControlUid, ControlYield)
    \/ (chains.calls < ControlSounds /\ testSound)
    \/ testOpenAI
    \/ \E c \in Cycles : \E i \in 1..Len(cycles[c].msgs) :
         \E confidence \in 0..MaxConfidence : Classified(c, i, "full", confidence)
SpecControl == Init /\ [][NextControl]_vars

Killed == {c \in Cycles : ~cycles[c].alive}

NextLifecycle ==
    \/ Bounded(LifeCycles, LifeInFlight, LifeUid, LifeYield)
    \/ (Room(LifeCycles, LifeInFlight) /\ bootstrap)
    \/ onModuleDestroy
    \/ (Cardinality(Killed) < LifeKilled /\ Restart)
SpecLifecycle == Init /\ [][NextLifecycle]_vars

NextManual == Bounded(ManualCycles, ManualInFlight, ManualUid, ManualYield)
SpecManual == Init /\ [][NextManual]_vars

NextReport ==
    \/ Bounded(ControlCycles, ControlInFlight, ControlUid, ControlYield)
    \/ \E c \in Cycles : \E i \in 1..Len(cycles[c].msgs) :
         \E parsed \in ParsedMessages : cycles[c].alive /\ Parsed(c, i, parsed)
SpecReport == Init /\ [][NextReport]_vars

NextAlert ==
    \/ (cycles = <<>> /\ onModuleInit)
    \/ (chains.calls < AlertSounds /\ Len(chains.execs) < AlertExecs /\ testSound)
    \/ (Len(chains.execs) < AlertExecs /\ playBeep)
    \/ \E e \in 1..Len(chains.execs) : \E error \in BOOLEAN : execCallback(e, error)
SpecAlert == Init /\ [][NextAlert]_vars

NextTest ==
    \/ (cycles = <<>> /\ onModuleInit)
    \/ stopMonitoring
    \/ \E sample \in TestBodies : testOpenAIOf(sample)
SpecTest == Init /\ [][NextTest]_vars

NextNotifier ==
    \/ Bounded(NotifierCycles, NotifierInFlight, NotifierUid, NotifierYield)
    \/ playBeep
SpecNotifier == Init /\ [][NextNotifier]_vars

\* ---- what the claims speak about ----
Msgs(c) == 1..Len(cycles[c].msgs)

\* playNotificationSound calls made for uid: one per cycle that found it new
NotifyCount(uid) ==
    Cardinality({c \in Cycles : uid \in Range(cycles[c].newEmails)})

\* classifyEmail calls made for uid, over all cycles
RECURSIVE CallsIn(_, _, _)
CallsIn(c, n, uid) ==
    IF n = 0 THEN 0
    ELSE CallsIn(c, n - 1, uid) +
         (IF cycles[c].msgs[n].uid = uid THEN cycles[c].msgs[n].calls ELSE 0)

RECURSIVE CallsUpTo(_, _)
CallsUpTo(n, uid) ==
    IF n = 0 THEN 0
    ELSE CallsUpTo(n - 1, uid) + CallsIn(n, Len(cycles[n].msgs), uid)

ClassifyCount(uid) == CallsUpTo(Len(cycles), uid)

ParseCompleted(m) == m.parse \in {"failed", "classifying", "error", "done"}

\* C1: a cycle never fetches a uid that was in processedEmails when the cycle
\* started, and at the moment the fetch is issued none of the uids handed to
\* imap.fetch is in processedEmails; only uids handed to the fetch are yielded.
C1_NoRefetch ==
    /\ \A c \in Cycles :
         /\ Range(cycles[c].newEmails) \cap cycles[c].seenAtStart = {}
         /\ \A i \in Msgs(c) : cycles[c].msgs[i].uid = cycles[c].newEmails[i]
    /\ lastOp.op = "search" =>
         Range(cycles[lastOp.c].newEmails) \cap processedEmails = {}

\* a later cycle found a processed uid in its search result and dropped it
C1_Witness ==
    /\ lastOp.op = "search"
    /\ cycles[lastOp.c].seenAtStart \cap mailbox # {}
    /\ cycles[lastOp.c].newEmails = <<>>

\* C2: every message is notified at most once and classified at most once
C2_AtMostOnce ==
    \A uid \in mailbox : NotifyCount(uid) <= 1 /\ ClassifyCount(uid) <= 1

\* C3: once a cycle has completed or failed, its session is not open
C3_SessionClosed ==
    \A c \in Cycles :
        cycles[c].settled # "pending" => cycles[c].session # "open"

\* C4: every uid in processedEmails belongs to a message whose parse has
\* completed (the parser callback has run, with or without an error)
C4_ProcessedAfterParse ==
    \A c \in Cycles : \A i \in Msgs(c) :
        cycles[c].msgs[i].attrs => ParseCompleted(cycles[c].msgs[i])

Added(c, i) == cycles[c].msgs[i].attrs => cycles[c].msgs[i].uid \in processedEmails

\* C5: when classifyEmail throws for a message, its report is the error block
\* alone and classifyEmail is called at most once for it (no retry); a full
\* reply for another message still yields the classification block; the uid
\* of each message is in processedEmails once its attributes arrived,
\* whatever its classification.
C5_State ==
    /\ lastOp.op = "classified" =>
         LET m == cycles[lastOp.c].msgs[lastOp.i] IN
         /\ lastOp.reply \in {"down", "empty", "garbage", "noClassification"} =>
              lastOp.cls = "none" /\ lastOp.err /\ m.parse = "error"
         /\ lastOp.reply = "full" =>
              lastOp.cls = "full" /\ ~lastOp.err /\ m.parse = "done"
    /\ \A c \in Cycles : \A i \in Msgs(c) :
         Added(c, i) /\ cycles[c].msgs[i].calls <= 1

C5_ClassifierFailureIsolated == C5_State

\* one cycle, two messages: the first classification failed, the second
\* succeeded, both uids are recorded and the cycle resolved
C5_Witness ==
    \E c \in Cycles :
        /\ Len(cycles[c].msgs) = 2
        /\ cycles[c].msgs[1].parse = "error"
        /\ cycles[c].msgs[2].parse = "done"
        /\ {cycles[c].msgs[1].uid, cycles[c].msgs[2].uid} \subseteq processedEmails
        /\ cycles[c].settled = "resolved"
        /\ lastOp.op = "classified" /\ lastOp.i = 2 /\ lastOp.reply = "full"

\* C6: a parser callback that reports an error changes nothing but the state
\* of its own message: the cycle is neither rejected nor closed, no other
\* message is touched, and the uid of the message stays recorded.
C6_Act ==
    \A c \in Cycles : \A i \in Msgs(c) :
        (cycles[c].msgs[i].parse = "pending" /\ cycles'[c].msgs[i].parse = "failed") =>
            /\ cycles' = [cycles EXCEPT ![c].msgs[i] = cycles'[c].msgs[i]]
            /\ cycles'[c].msgs[i].uid = cycles[c].msgs[i].uid
            /\ cycles'[c].msgs[i].bodyEnd = cycles[c].msgs[i].bodyEnd
            /\ cycles'[c].msgs[i].attrs = cycles[c].msgs[i].attrs
            /\ cycles'[c].msgs[i].reports = cycles[c].msgs[i].reports
            /\ cycles'[c].msgs[i].calls = cycles[c].msgs[i].calls
            /\ processedEmails' = processedEmails
            /\ app' = app

C6_State ==
    \A c \in Cycles : \A i \in Msgs(c) :
        cycles[c].msgs[i].parse = "failed" => Added(c, i)

C6_ParseFailureContained == []C6_State /\ [][C6_Act]_vars

\* the first message failed to parse, the second was parsed and classified,
\* both uids are recorded and the cycle resolved with its session ended
C6_Witness ==
    \E c \in Cycles :
        /\ Len(cycles[c].msgs) = 2
        /\ cycles[c].msgs[1].parse = "failed"
        /\ cycles[c].msgs[2].parse = "done"
        /\ {cycles[c].msgs[1].uid, cycles[c].msgs[2].uid} \subseteq processedEmails
        /\ cycles[c].settled = "resolved"
        /\ cycles[c].session = "ended"

\* C7: the step in which a cycle is rejected (connection error, open-mailbox
\* error, search error, fetch-stream error) leaves processedEmails unchanged,
\* and every uid in processedEmails is the uid of a message that a fetch
\* stream yielded and whose attributes arrived.
C7_Act ==
    \A c \in Cycles :
        (cycles[c].settled = "pending" /\ cycles'[c].settled = "rejected") =>
            processedEmails' = processedEmails

C7_State ==
    \A uid \in processedEmails :
        \E c \in Cycles : \E i \in Msgs(c) :
            cycles[c].msgs[i].uid = uid /\ cycles[c].msgs[i].attrs

C7_FailureLeavesLedger == []C7_State /\ [][C7_Act]_vars

\* a fetch stream failed before it yielded a message it was asked for, and
\* the next cycle found that message new again
C7_Witness ==
    \E c \in Cycles : \E d \in Cycles :
        /\ c < d
        /\ cycles[c].fetchErr
        /\ cycles[c].settled = "rejected"
        /\ Len(cycles[c].msgs) < Len(cycles[c].newEmails)
        /\ cycles[c].newEmails[Len(cycles[c].msgs) + 1] \in Range(cycles[d].newEmails)
        /\ Finished(cycles[c]) /\ cycles[d].seenAtStart = {}

\* C8: a rejected timer-driven cycle leaves the process running; the step
\* that rejects a cycle changes neither isMonitoring nor the armed timer; and
\* isMonitoring falls and the timer is cleared only in a stop.
C8_State ==
    \A c \in Cycles :
        (~cycles[c].manual /\ cycles[c].settled = "rejected") => app = "running"

C8_Act ==
    /\ \A c \in Cycles :
         (cycles[c].settled = "pending" /\ cycles'[c].settled = "rejected") =>
             UNCHANGED <<isMonitoring, intervalId, timers>>
    /\ (isMonitoring /\ ~isMonitoring') => lastOp'.op = "stop"
    /\ (timers # {} /\ timers' = {}) => lastOp'.op = "stop"

C8_FailureKeepsMonitoring == []C8_State /\ [][C8_Act]_vars

\* the first timer-driven cycle was rejected and a later tick started the next
C8_Witness ==
    /\ Len(cycles) = 2
    /\ ~cycles[1].manual /\ cycles[1].settled = "rejected"
    /\ lastOp = Op("tick", 2)
    /\ ~cycles[2].manual /\ cycles[2].pc = "connecting"
    /\ isMonitoring /\ intervalId \in timers

\* C9: stop can be called in every state of a running service; after it
\* isMonitoring is false and no timer is armed; while isMonitoring is false no
\* timer is armed, and a tick (the start of a timer-driven cycle) happens only
\* while isMonitoring is true.
C9_State ==
    /\ app = "running" => ENABLED stopMonitoring
    /\ ~isMonitoring => (intervalId = NULL /\ timers = {})
    /\ lastOp.op = "stop" => ~isMonitoring
    /\ lastOp.op = "tick" => isMonitoring

C9_StopLeavesIdle == C9_State

\* stop was called while a cycle was in flight
C9_Witness ==
    /\ lastOp.op = "stop"
    /\ ~isMonitoring /\ intervalId = NULL /\ timers = {}
    /\ InFlight # {}

\* C10: stop changes no cycle, no pulse chain and no recorded uid, and while
\* the scheduler is Idle every pending event of a cycle in flight and every
\* pending pulse can still run.
C10_Act ==
    stopMonitoring => UNCHANGED <<cycles, chains, processedEmails>>

C10_State ==
    (app = "running" /\ ~isMonitoring) =>
        /\ chains.pending # <<>> => ENABLED playBeep
        /\ \A c \in Cycles :
             /\ (/\ cycles[c].pc = "fetching"
                 /\ Len(cycles[c].msgs) > 0
                 /\ ~cycles[c].msgs[Len(cycles[c].msgs)].attrs) => ENABLED Attributes(c)
             /\ \A i \in Msgs(c) :
                  /\ cycles[c].msgs[i].parse = "pending" => ENABLED ParserCb(c, i)
                  /\ cycles[c].msgs[i].parse = "classifying" => ENABLED ClassifyDone(c, i)

C10_StopCancelsNothing == []C10_State /\ [][C10_Act]_vars

\* after the stop a timer-driven cycle recorded a uid while pulses were pending
C10_Witness ==
    /\ app = "running" /\ ~isMonitoring
    /\ lastOp.op = "attributes"
    /\ ~cycles[lastOp.c].manual
    /\ chains.pending # <<>>

\* C11: a POST /read-emails starts exactly one cycle, with manual = TRUE, and
\* neither that step nor any later step of a manual cycle (up to and including
\* its resolve or reject) changes isMonitoring, intervalId or the armed timers,
\* whether the scheduler is monitoring or Idle.
C11_Act ==
    /\ lastOp'.op = "readEmails" =>
         /\ Len(cycles') = Len(cycles) + 1
         /\ cycles'[Len(cycles')] = NewCycle(TRUE)
         /\ \A c \in Cycles : cycles'[c] = cycles[c]
         /\ UNCHANGED <<isMonitoring, intervalId, timers>>
    /\ \A c \in Cycles :
         (cycles[c].manual /\ cycles'[c] # cycles[c]) =>
             UNCHANGED <<isMonitoring, intervalId, timers>>

C11_State ==
    /\ \A c \in Cycles : cycles[c].manual => app = "running"
    /\ lastOp.op = "readEmails" => cycles[lastOp.c].manual

C11_ManualLeavesScheduler == []C11_State /\ [][C11_Act]_vars

\* a manual cycle started while the scheduler was Idle has been rejected
C11_Witness ==
    \E c \in Cycles :
        /\ cycles[c].manual
        /\ cycles[c].settled = "rejected"
        /\ lastOp.c = c /\ lastOp.op \in {"imapError", "openBox", "searchErr", "fetchError"}
        /\ ~isMonitoring /\ timers = {}

\* C12: after a search that returned no uid the cycle has called
\* playNotificationSound once if it is manual and not at all if it is
\* timer-driven, has fetched nothing, has ended its session and has resolved.
C12_EmptySearch ==
    (lastOp.op = "search" /\ mailbox = {}) =>
        LET cy == cycles[lastOp.c] IN
        /\ cy.sounds = IF cy.manual THEN 1 ELSE 0
        /\ cy.newEmails = <<>> /\ cy.msgs = <<>>
        /\ cy.session = "ended"
        /\ cy.settled = "resolved"

\* C13: after a search whose uids were all in processedEmails the cycle has
\* called playNotificationSound once if it is manual and not at all if it is
\* timer-driven, has issued no fetch (no message is ever yielded, none is
\* classified), has ended its session and has resolved.
C13_AllProcessed ==
    /\ (lastOp.op = "search" /\ mailbox # {} /\ mailbox \subseteq processedEmails) =>
         LET cy == cycles[lastOp.c] IN
         /\ cy.sounds = IF cy.manual THEN 1 ELSE 0
         /\ cy.newEmails = <<>> /\ cy.msgs = <<>> /\ cy.emailCount = 0
         /\ cy.pc = "closed"
         /\ cy.session = "ended"
         /\ cy.settled = "resolved"
    /\ \A c \in Cycles :
         (cycles[c].pc = "closed" /\ cycles[c].newEmails = <<>>) => cycles[c].msgs = <<>>

\* a manual check found only processed mail and played the test sound
C13_Witness ==
    /\ lastOp.op = "search"
    /\ mailbox # {} /\ mailbox \subseteq processedEmails
    /\ cycles[lastOp.c].manual
    /\ cycles[lastOp.c].sounds = 1

\* C14: a cycle that found N >= 1 new uids has called playNotificationSound
\* exactly N times by the time its fetch is issued (each call has emitted its
\* first pulse and left one timer pending), no message is yielded before that,
\* and when the cycle resolves all N messages have been yielded in the order of
\* the search result and their uids are in processedEmails.
C14_NotifyEachThenFetch ==
    /\ \A c \in Cycles :
         LET cy == cycles[c]
             N == Len(cy.newEmails) IN
         /\ (cy.pc = "fetching" \/ cy.msgs # <<>>) => N >= 1
         /\ N >= 1 => cy.sounds = N
         /\ (N >= 1 /\ cy.settled = "resolved") =>
              /\ Len(cy.msgs) = N
              /\ \A i \in 1..N :
                   /\ cy.msgs[i].uid = cy.newEmails[i]
                   /\ cy.msgs[i].attrs
                   /\ cy.msgs[i].uid \in processedEmails
    /\ (lastOp.op = "search" /\ cycles[lastOp.c].newEmails # <<>>) =>
         LET cy == cycles[lastOp.c]
             N == Len(cy.newEmails)
             P == Len(chains.pending) IN
         /\ cy.pc = "fetching" /\ cy.msgs = <<>> /\ cy.emailCount = 0
         /\ P >= N
         /\ \A k \in (P - N + 1)..P : chains.pending[k] = 1

\* a cycle found two new messages, notified twice, fetched both and resolved
C14_Witness ==
    \E c \in Cycles :
        /\ Len(cycles[c].newEmails) = 2
        /\ cycles[c].sounds = 2
        /\ Len(cycles[c].msgs) = 2
        /\ cycles[c].settled = "resolved"
        /\ Range(cycles[c].newEmails) \subseteq processedEmails

\* C15 (as claimed): once a cycle has no handler left to run, every message
\* its fetch stream delivered in full has had exactly one parser callback,
\* exactly one report and at most one classifyEmail call.
C15_ExactlyOneReport ==
    \A c \in Cycles :
        Finished(cycles[c]) =>
            \A i \in {j \in Msgs(c) : cycles[c].msgs[j].bodyEnd} :
                /\ cycles[c].msgs[i].parses = 1
                /\ cycles[c].msgs[i].reports = 1
                /\ cycles[c].msgs[i].calls <= 1

\* C15 (amended): for every message a fetch stream yielded, the parser
\* callback runs at most once (exactly once if the body was received in
\* full, once the cycle has no handler left to run), classifyEmail is called
\* at most once, and the report is printed at most once: exactly once if the
\* parser callback ran without a parse error, never before it, and not at all
\* if it reported a parse error or never ran.
C15_AtMostOneReport ==
    \A c \in Cycles : \A i \in Msgs(c) :
        LET m == cycles[c].msgs[i] IN
        /\ m.parses <= 1 /\ m.reports <= 1 /\ m.calls <= 1
        /\ m.calls <= m.reports /\ m.reports <= m.parses
        /\ m.parses = 1 <=> ParseCompleted(m)
        /\ m.reports = 1 <=> m.parse \in {"classifying", "error", "done"}
        /\ (Finished(cycles[c]) /\ m.bodyEnd) => m.parses = 1
        /\ ~m.bodyEnd => m.parses = 0

\* a finished cycle in which the first message failed to parse (no report)
\* and the second was parsed, reported and classified once
C15_Witness ==
    \E c \in Cycles :
        /\ Finished(cycles[c])
        /\ Len(cycles[c].msgs) = 2
        /\ cycles[c].msgs[1].parse = "failed"
        /\ cycles[c].msgs[1].parses = 1 /\ cycles[c].msgs[1].reports = 0
        /\ cycles[c].msgs[2].parse = "done"
        /\ cycles[c].msgs[2].parses = 1 /\ cycles[c].msgs[2].reports = 1
        /\ cycles[c].msgs[2].calls = 1

RECURSIVE SumSeq(_)
SumSeq(q) == IF q = <<>> THEN 0 ELSE Head(q) + SumSeq(Tail(q))

\* C16: every playNotificationSound call emits exactly maxBeeps = 10 pulses and
\* then logs completion: each call still pending has emitted between 1 and 10
\* pulses (its own beepCount), each completed call has emitted 10, so the
\* pulses emitted are 10 per completed call plus the beepCount of each pending
\* one, and 10 N in total once N calls have completed. The first pulse is
\* emitted inside the call, the other nine by timers: right after the search
\* callback that notified, the timers are pending and the fetch stream can
\* already yield.
C16_State ==
    /\ \A k \in 1..Len(chains.pending) : chains.pending[k] \in 1..maxBeeps
    /\ chains.calls = Len(chains.pending) + chains.completed
    /\ chains.pulses = maxBeeps * chains.completed + SumSeq(chains.pending)
    /\ chains.pending = <<>> => chains.pulses = maxBeeps * chains.calls
    /\ (lastOp.op = "search" /\ cycles[lastOp.c].newEmails # <<>>) =>
         /\ chains.pending # <<>> /\ chains.pending[Len(chains.pending)] = 1
         /\ ENABLED FetchMessage(lastOp.c)

\* a pulse timer either emits one pulse and stays pending or, at beepCount =
\* 10, emits nothing and completes; no other step completes a call
C16_Act ==
    /\ chains'.completed # chains.completed =>
         /\ chains.pending # <<>> /\ Head(chains.pending) = maxBeeps
         /\ chains'.completed = chains.completed + 1
         /\ chains'.pulses = chains.pulses
         /\ chains'.pending = Tail(chains.pending)
    /\ lastOp'.op = "playBeep" =>
         \/ chains'.completed = chains.completed + 1
         \/ /\ chains'.pulses = chains.pulses + 1
            /\ chains'.pending = Append(Tail(chains.pending), Head(chains.pending) + 1)

C16_TenPulsesPerCall == []C16_State /\ [][C16_Act]_vars

\* two calls were pending at the same time with different beepCounts
C16_WitnessConcurrent ==
    /\ Len(chains.pending) = 2
    /\ chains.pending[1] # chains.pending[2]

\* two calls (by two poll cycles) have both completed: 20 pulses
C16_Witness ==
    /\ chains.calls = 2
    /\ chains.completed = 2
    /\ chains.pulses = 2 * maxBeeps
    /\ \E c \in Cycles : \E d \in Cycles :
         c # d /\ cycles[c].sounds = 1 /\ cycles[d].sounds = 1

\* C17: testConnection never raises; it returns true exactly when the reply
\* carries a non-empty content string, false when the content is missing, null
\* or empty, and false when the backend call rejects.
C17_TestConnection ==
    lastOp.op = "testOpenAI" =>
        LET connectionTest == lastOp.connectionTest IN
        /\ ~connectionTest.raised
        /\ connectionTest.value <=> lastOp.conn = "hello"
        /\ lastOp.conn \in {"noChoice", "nullContent", "emptyString"} =>
             connectionTest.value = FALSE
        /\ lastOp.conn = "down" => connectionTest.value = FALSE

\* the backend answered the connection test with an empty content string:
\* testConnection returned false and POST /test-openai answered in-band
C17_Witness ==
    /\ lastOp.op = "testOpenAI"
    /\ lastOp.conn = "emptyString"
    /\ lastOp.connectionTest = [raised |-> FALSE, value |-> FALSE]
    /\ lastOp.resp.message = "OpenAI connection test failed"

\* C18: classifyEmail throws, and returns no classification, whenever the
\* backend call rejects, the reply has no content, the content is not JSON or
\* the JSON lacks one of the fields of EmailClassification.
C18_ClassifyRejectsMalformed ==
    (/\ lastOp.op = "classified"
     /\ \/ lastOp.reply \in {"down", "empty", "garbage"}
        \/ Fields(lastOp.reply) # AllFields) =>
        /\ lastOp.cls = "none"
        /\ lastOp.err
        /\ lastOp.conf = <<>>

\* C19: for a confidence c in 0..100 the label printed next to it is High iff
\* 80 <= c <= 100, Medium iff 60 <= c < 80 and Low iff 0 <= c < 60, and the
\* confidence of the classification object is the value the payload carried.
C19_ConfidenceBand ==
    (/\ lastOp.op = "classified"
     /\ lastOp.shown # <<>>
     /\ lastOp.shown[1] \in 0..MaxConfidence) =>
        LET c == lastOp.shown[1] IN
        /\ lastOp.band \in {"High", "Medium", "Low"}
        /\ lastOp.band = "High" <=> (80 <= c /\ c <= 100)
        /\ lastOp.band = "Medium" <=> (60 <= c /\ c < 80)
        /\ lastOp.band = "Low" <=> (0 <= c /\ c < 60)
        /\ lastOp.conf = lastOp.shown

\* a confidence of exactly 80 was printed with the label High
C19_Witness ==
    /\ lastOp.op = "classified"
    /\ lastOp.reply = "full"
    /\ lastOp.shown = <<80>>
    /\ lastOp.conf = <<80>>
    /\ lastOp.band = "High"

\* a confidence of exactly 60 was printed with the label Medium
C19_WitnessMedium ==
    /\ lastOp.op = "classified"
    /\ lastOp.shown = <<60>>
    /\ lastOp.band = "Medium"

\* C20: no endpoint lets an exception out. POST /read-emails answers 'Error
\* reading emails' when its cycle rejects and 'Successfully processed emails'
\* when it resolves; POST /test-openai answers success = false with a message
\* when the connection test returns false or classifyEmail throws, and
\* success = true only when neither happened; the process keeps running.
C20_EndpointsAnswerInBand ==
    /\ app # "crashed"
    /\ \A c \in Cycles :
         /\ cycles[c].answer # "exception"
         /\ cycles[c].manual =>
              /\ cycles[c].settled = "rejected" => cycles[c].answer = "Error reading emails"
              /\ cycles[c].settled = "resolved" =>
                   cycles[c].answer = "Successfully processed emails"
              /\ cycles[c].settled = "pending" => cycles[c].answer = "none"
    /\ lastOp.op = "testOpenAI" =>
         LET resp == lastOp.resp
             failed == \/ ~lastOp.connectionTest.value
                       \/ (resp.called /\ ~classifyEmail(lastOp.reply)) IN
         /\ ~resp.threw
         /\ failed => (/\ resp.success = FALSE
                       /\ resp.message \in {"OpenAI connection test failed",
                                            "OpenAI test failed"})
         /\ ~failed => resp.success = TRUE

\* a manual cycle was rejected and answered in-band, and a POST /test-openai
\* whose classification failed answered success = false
C20_Witness ==
    /\ \E c \in Cycles :
         /\ cycles[c].manual
         /\ cycles[c].settled = "rejected"
         /\ cycles[c].answer = "Error reading emails"
    /\ lastOp.op = "testOpenAI"
    /\ lastOp.resp.called
    /\ lastOp.reply = "garbage"
    /\ lastOp.resp.success = FALSE
    /\ app = "running"

\* C21: while the process lives, no step removes a UID from processedEmails:
\* not a cycle that fails, not a deactivation or activation of monitoring, not
\* a manual read, not a sound or classifier test.
C21_ProcessedSetMonotone == [][processedEmails \subseteq processedEmails']_vars

\* a UID is remembered after a rejected cycle, a deactivation and a classifier
\* test
C21_Witness ==
    /\ processedEmails # {}
    /\ \E c \in Cycles : cycles[c].settled = "rejected"
    /\ ~isMonitoring
    /\ lastOp.op = "testOpenAI"

C23_Starts ==
    \/ lastOp'.op \in {"onModuleInit", "start"}
    \/ (lastOp'.op = "bootstrap" /\ ~lastOp'.threw)

C23_Act ==
    /\ (C23_Starts /\ lastOp'.op # "start") => (~isMonitoring /\ isMonitoring')
    /\ (C23_Starts /\ ~isMonitoring) =>
          /\ isMonitoring'
          /\ Len(cycles') = Len(cycles) + 1
          /\ cycles'[Len(cycles')] = NewCycle(FALSE)
          /\ \A c \in Cycles : cycles'[c] = cycles[c]
          /\ intervalId' \notin timers
          /\ intervalId' # NULL
          /\ timers' = timers \cup {intervalId'}
    /\ lastOp'.op = "onModuleDestroy" =>
          /\ ~isMonitoring'
          /\ intervalId' = NULL
          /\ timers' = {}

C23_AutoStartAndDestroy == [][C23_Act]_vars

\* monitoring was started at initialisation, stopped, started again by the
\* endpoint (two automatic cycles, no tick) and ended by onModuleDestroy
C23_Witness ==
    /\ lastOp.op = "onModuleDestroy"
    /\ Len(cycles) = 2
    /\ \A c \in Cycles : ~cycles[c].manual
    /\ ~isMonitoring
    /\ app = "destroyed"

\* C24: no step of the program changes the set of unseen matching messages
\* (only the arrival of mail does): every UID a cycle found, fetched or
\* recorded still matches the search, and a search passes on exactly the
\* matching UIDs that are not in processedEmails.
C24_State ==
    /\ processedEmails \subseteq mailbox
    /\ \A c \in Cycles :
         /\ Range(cycles[c].newEmails) \subseteq mailbox
         /\ \A i \in 1..Len(cycles[c].msgs) : cycles[c].msgs[i].uid \in mailbox
    /\ lastOp.op = "search" =>
         IF cycles[lastOp.c].pc = "fetching"
         THEN Range(cycles[lastOp.c].newEmails) = mailbox \ processedEmails
         ELSE mailbox \subseteq processedEmails

C24_Act == lastOp'.op # "mail" => mailbox' = mailbox

C24_MailboxUntouched == []C24_State /\ [][C24_Act]_vars

\* a later cycle searched while the message recorded by an earlier one still
\* matched, and ended with nothing new
C24_Witness ==
    /\ lastOp.op = "search"
    /\ lastOp.c = 2
    /\ processedEmails # {}
    /\ processedEmails = mailbox
    /\ cycles[1].msgs # <<>>
    /\ cycles[2].pc = "closed"
    /\ cycles[2].newEmails = <<>>

\* C25: two manual reads one right after the other, with no matching message
\* outside processedEmails from before the first to now: neither finds a new
\* message, fetches or classifies; each, unless its connection failed, ends
\* its session, resolves and is answered as processed; processedEmails is what
\* it was when the first began.
C25_ManualTwiceIdempotent ==
    \A c \in Cycles :
        (/\ c + 1 \in Cycles
         /\ cycles[c].manual
         /\ cycles[c + 1].manual
         /\ mailbox \subseteq cycles[c].seenAtStart)
        => /\ processedEmails = cycles[c].seenAtStart
           /\ cycles[c + 1].seenAtStart = cycles[c].seenAtStart
           /\ \A x \in {c, c + 1} :
                /\ cycles[x].newEmails = <<>>
                /\ cycles[x].msgs = <<>>
                /\ cycles[x].emailCount = 0
                /\ cycles[x].pc # "fetching"
                /\ cycles[x].settled = "resolved" =>
                     /\ cycles[x].session = "ended"
                     /\ cycles[x].answer = "Successfully processed emails"

\* the automatic cycle recorded the message; two manual reads followed, both
\* resolved without a fetch
C25_Witness ==
    /\ Len(cycles) = 3
    /\ cycles[1].msgs # <<>>
    /\ mailbox # {}
    /\ mailbox \subseteq cycles[2].seenAtStart
    /\ \A x \in {2, 3} :
         /\ cycles[x].manual
         /\ cycles[x].settled = "resolved"
         /\ cycles[x].pc = "closed"
         /\ cycles[x].msgs = <<>>

\* C26: the report of a parsed message shows 'Unknown' for an absent sender
\* and for an absent recipient, 'No Subject' for an absent subject, 'Unknown
\* Date' for an absent date, and as body the plain text if there is one, else
\* the markup, else 'No content available'; a field that is there is shown as
\* it is; the classifier is sent the from, subject and body the report shows.
\* An empty string counts as absent.
C26_Given(field) == field # <<>> /\ field[1] # ""

C26_FieldSubstitution ==
    lastOp.op = "parsed" =>
        LET p == lastOp.parsed
            r == lastOp.shown
            q == lastOp.sent
        IN /\ r.from = IF C26_Given(p.from) THEN p.from[1] ELSE "Unknown"
           /\ r.to = IF C26_Given(p.to) THEN p.to[1] ELSE "Unknown"
           /\ r.subject = IF C26_Given(p.subject) THEN p.subject[1] ELSE "No Subject"
           /\ r.date = IF C26_Given(p.date) THEN p.date[1] ELSE "Unknown Date"
           /\ r.body = IF C26_Given(p.text) THEN p.text[1]
                       ELSE IF C26_Given(p.html) THEN p.html[1]
                       ELSE "No content available"
           /\ q = [from |-> r.from, subject |-> r.subject, body |-> r.body]

\* a message with no sender, recipient, subject, date or content was reported
\* and sent to the classifier with the literals
C26_Witness ==
    /\ lastOp.op = "parsed"
    /\ lastOp.parsed = [from |-> <<>>, to |-> <<>>, subject |-> <<>>,
                        date |-> <<>>, text |-> <<>>, html |-> <<>>]
    /\ lastOp.sent = [from |-> "Unknown", subject |-> "No Subject",
                      body |-> "No content available"]
    /\ cycles[lastOp.c].msgs[lastOp.i].calls = 1

\* a message with markup only was reported and sent with the markup as body
C26_WitnessMarkup ==
    /\ lastOp.op = "parsed"
    /\ lastOp.parsed.text = <<"">>
    /\ lastOp.parsed.html # <<>>
    /\ lastOp.sent.body = lastOp.parsed.html[1]

\* C27: within one fetch stream the report of a message is printed, and its
\* classification requested, before those of any message yielded after it:
\* when a later message has been reported, no earlier one is still waiting for
\* its parser callback.
C27_ProcessedInYieldOrder ==
    \A c \in Cycles :
        \A i, j \in 1..Len(cycles[c].msgs) :
            (i < j /\ cycles[c].msgs[j].reports > 0)
                => cycles[c].msgs[i].parse # "pending"

\* C28: while monitoring is on the timer can tick whatever the cycles in
\* flight, and a tick starts a new automatic cycle with a session of its own
\* (not yet connected) next to the cycles in flight, whose sessions it leaves
\* as they are.
C28_SchedulerNotCycleAware ==
    /\ isMonitoring => ENABLED TimerTick
    /\ lastOp.op = "tick" =>
         /\ lastOp.c = Len(cycles)
         /\ cycles[lastOp.c] = [NewCycle(FALSE) EXCEPT
                                   !.seenAtStart = cycles[lastOp.c].seenAtStart]
         /\ lastOp.c \in InFlight

\* a tick started a cycle while the previous one had its session open, and
\* later both sessions were open at once
C28_Witness ==
    /\ Len(cycles) = 2
    /\ ~cycles[2].manual
    /\ \A c \in {1, 2} : c \in InFlight /\ cycles[c].session = "open"

\* the state right after a tick taken while a cycle was fetching
C28_WitnessTick ==
    /\ lastOp.op = "tick"
    /\ \E c \in InFlight : c < lastOp.c /\ cycles[c].pc = "fetching"

\* C29: processedEmails is empty when a process starts, also after a restart,
\* and nothing else records handled messages: a search made before the running
\* process has recorded any message (the first cycle after a restart, unless a
\* cycle overlapping it got ahead) finds every unseen matching message new,
\* plays one notification for each and fetches them all, also those a cycle of
\* the previous process recorded.
C29_NothingRecorded ==
    \A d \in Cycles :
        cycles[d].alive =>
            \A i \in 1..Len(cycles[d].msgs) : ~cycles[d].msgs[i].attrs

C29_RestartReprocesses ==
    /\ lastOp.op \in {"init", "restart"} => processedEmails = {}
    /\ app = "constructed" => processedEmails = {}
    /\ \A c \in Cycles :
         (/\ cycles[c].alive
          /\ lastOp.op = "search"
          /\ lastOp.c = c
          /\ C29_NothingRecorded
          /\ mailbox # {})
         => /\ cycles[c].pc = "fetching"
            /\ Range(cycles[c].newEmails) = mailbox
            /\ cycles[c].sounds = Cardinality(mailbox)
            /\ cycles[c].seenAtStart = {}

\* the message was fetched, recorded and classified before the restart, and
\* notified, fetched, recorded and classified again by the first cycle after it
C29_Witness ==
    /\ Len(cycles) = 2
    /\ ~cycles[1].alive
    /\ cycles[2].alive
    /\ \A c \in {1, 2} :
         /\ Len(cycles[c].msgs) = 1
         /\ cycles[c].msgs[1].uid = 1
         /\ cycles[c].msgs[1].attrs
         /\ cycles[c].msgs[1].parse = "done"
         /\ cycles[c].sounds = 1
    /\ processedEmails = {1}

\* C30: for a parsed message whose classification attempt has ended, either
\* the classification block was rendered (banner and detailed results, in
\* full) or the error block was, and not both.
C30_ExactlyOneBlock ==
    lastOp.op = "classified" =>
        \/ (lastOp.cls = "full" /\ ~lastOp.err)
        \/ (lastOp.cls = "none" /\ lastOp.err)

\* C31: the commands of a pulse are started in the order afplay Ping, afplay
\* Glass, powershell beep, beep; a command is started only by the error
\* callback of the one before it; the textual marker is printed exactly when
\* the fourth has failed after the first three; and no callback of a command
\* touches the deferred playBeep timers, which can fire whatever the commands
\* do.
C31_Order == <<"afplay Ping", "afplay Glass", "powershell beep", "beep">>

C31_Prefix(tried) ==
    /\ Len(tried) \in 1..Len(C31_Order)
    /\ \A k \in 1..Len(tried) : tried[k] = C31_Order[k]

C31_State ==
    /\ \A e \in 1..Len(chains.execs) : C31_Prefix(chains.execs[e])
    /\ chains.pending # <<>> => ENABLED playBeep
    /\ lastOp.op = "exec" =>
         /\ C31_Prefix(lastOp.tried)
         /\ lastOp.marker <=> (lastOp.error /\ lastOp.tried = C31_Order)
         /\ lastOp.started # <<>> <=> (lastOp.error /\ lastOp.tried # C31_Order)
         /\ lastOp.started # <<>> =>
              lastOp.started[1] = C31_Order[Len(lastOp.tried) + 1]

C31_Act ==
    /\ (\E e \in 1..Len(chains.execs) :
           /\ e \in 1..Len(chains'.execs)
           /\ Len(chains'.execs[e]) > Len(chains.execs[e])
           /\ Len(chains'.execs) = Len(chains.execs))
         => (lastOp'.op = "exec" /\ lastOp'.error)
    /\ lastOp'.op = "exec" =>
         /\ chains'.pending = chains.pending
         /\ chains'.pulses = chains.pulses
         /\ chains'.calls = chains.calls
         /\ chains'.completed = chains.completed

C31_FallbackChain == []C31_State /\ [][C31_Act]_vars

\* all four commands of a pulse failed and the marker was printed, while the
\* next pulse had been emitted and the one after it is scheduled
C31_Witness ==
    /\ lastOp.op = "exec"
    /\ lastOp.marker
    /\ lastOp.tried = C31_Order
    /\ chains.pulses >= 2
    /\ chains.execs # <<>>
    /\ chains.pending # <<>>

\* the second command of a pulse succeeded: nothing more was started
C31_WitnessSecond ==
    /\ lastOp.op = "exec"
    /\ ~lastOp.error
    /\ lastOp.tried = <<"afplay Ping", "afplay Glass">>
    /\ ~lastOp.marker
    /\ lastOp.started = <<>>

\* C32: POST /test-openai invokes classifyEmail exactly when testConnection
\* returned true and the request carries a from, a subject or a body (an empty
\* string does not count). When testConnection returned false the answer is
\* success = false and nothing is classified; when no field is carried the
\* answer is success without a classification; a sample is sent to the
\* classifier with test@example.com, Test Subject and the test body in place
\* of the fields it lacks, and the answer carries the classification if the
\* classifier returned one.
C32_Carried(field) == field # <<>> /\ field[1] # ""

C32_TestOpenAIGate ==
    lastOp.op = "testOpenAI" =>
        LET b == lastOp.body
            any == C32_Carried(b.from) \/ C32_Carried(b.subject) \/ C32_Carried(b.body)
            resp == lastOp.resp
        IN /\ resp.called <=> (lastOp.connectionTest.value /\ any)
           /\ ~lastOp.connectionTest.value =>
                (~resp.success /\ ~resp.classification /\ lastOp.sent = <<>>)
           /\ (lastOp.connectionTest.value /\ ~any) =>
                (resp.success /\ ~resp.classification /\ lastOp.sent = <<>>)
           /\ resp.called =>
                /\ lastOp.sent =
                     << [from    |-> IF C32_Carried(b.from) THEN b.from[1]
                                     ELSE "test@example.com",
                         subject |-> IF C32_Carried(b.subject) THEN b.subject[1]
                                     ELSE "Test Subject",
                         body    |-> IF C32_Carried(b.body) THEN b.body[1]
                                     ELSE "This is a test email body."] >>
                /\ resp.classification <=> resp.success
                /\ lastOp.reply = "full" => resp.classification

\* a request with only a subject was classified with the default from and body
C32_Witness ==
    /\ lastOp.op = "testOpenAI"
    /\ lastOp.body = [from |-> <<>>, subject |-> <<"Hi">>, body |-> <<>>]
    /\ lastOp.resp.called
    /\ lastOp.resp.classification
    /\ lastOp.sent = << [from |-> "test@example.com", subject |-> "Hi",
                         body |-> "This is a test email body."] >>

\* a full sample was not classified because the connection test failed
C32_WitnessGate ==
    /\ lastOp.op = "testOpenAI"
    /\ C32_Carried(lastOp.body.from)
    /\ lastOp.conn = "nullContent"
    /\ ~lastOp.resp.called
    /\ ~lastOp.resp.success

\* C33: every cycle connects one session of its own (connects counts
\* imap.connect(), ends counts imap.end()); a cycle that resolved, after an
\* empty search, a search with nothing new or the end of its fetch stream, has
\* ended it exactly once; no step of one cycle opens, ends or breaks the
\* session of another, and a new cycle starts with a session not yet connected.
C33_State ==
    \A c \in Cycles :
        /\ cycles[c].connects = 1
        /\ cycles[c].ends <= 1
        /\ cycles[c].ends = 1 <=> cycles[c].session = "ended"
        /\ cycles[c].settled = "resolved" => cycles[c].ends = 1

C33_Act ==
    /\ \A c \in Cycles :
         (cycles'[c].session # cycles[c].session \/ cycles'[c].ends # cycles[c].ends)
            => lastOp'.c = c
    /\ Len(cycles') > Len(cycles) =>
         /\ cycles'[Len(cycles')].session = "none"
         /\ cycles'[Len(cycles')].ends = 0

C33_OneSessionPerCycle == []C33_State /\ [][C33_Act]_vars

\* two overlapping cycles resolved, one after a fetch and one after a search
\* with nothing new, each having ended its own session once
C33_Witness ==
    /\ Len(cycles) = 2
    /\ \A c \in {1, 2} :
         /\ cycles[c].settled = "resolved"
         /\ cycles[c].ends = 1
         /\ cycles[c].session = "ended"
    /\ \E c \in {1, 2} : cycles[c].msgs # <<>>
    /\ \E c \in {1, 2} : cycles[c].newEmails = <<>>

\* C34: isMonitoring is true exactly when an interval timer is armed; at most
\* one is armed, and it is the one intervalId names; GET /monitoring-status
\* answers isMonitoring = true exactly when a timer tick can start a cycle.
C34_MonitoringIffTimer ==
    /\ isMonitoring <=> timers # {}
    /\ Cardinality(timers) <= 1
    /\ isMonitoring => timers = {intervalId}
    /\ ~isMonitoring => intervalId = NULL
    /\ getMonitoringStatus.isMonitoring <=> ENABLED TimerTick

\* monitoring was stopped and started again, a manual read and a tick
\* followed: one timer is armed
C34_Witness ==
    /\ lastOp.op = "start"
    /\ isMonitoring
    /\ Cardinality(timers) = 1
    /\ Len(cycles) = 2
    /\ getMonitoringStatus.isMonitoring

\* monitoring is off after a manual read while a cycle is in flight
C34_WitnessIdle ==
    /\ lastOp.op = "readEmails"
    /\ ~getMonitoringStatus.isMonitoring
    /\ timers = {}
    /\ ~ENABLED TimerTick

\* C35: POST /start-monitoring while monitoring is on, and POST
\* /stop-monitoring while it is off, change nothing: no flag, no timer, no
\* cycle started, no recorded uid, no pulse.
C35_Act ==
    /\ (lastOp'.op = "start" /\ isMonitoring) =>
          UNCHANGED <<app, isMonitoring, intervalId, timers, cycles,
                      processedEmails, mailbox, chains>>
    /\ (lastOp'.op = "stop" /\ ~isMonitoring) =>
          UNCHANGED <<app, isMonitoring, intervalId, timers, cycles,
                      processedEmails, mailbox, chains>>

C35_StartStopIdempotent == [][C35_Act]_vars

\* start was called while monitoring was on and a cycle in flight: still one
\* cycle and one timer
C35_Witness ==
    /\ lastOp.op = "start"
    /\ isMonitoring
    /\ Len(cycles) = 1
    /\ InFlight = {1}
    /\ cycles[1].pc = "fetching"
    /\ Cardinality(timers) = 1

\* stop was called while monitoring was off
C35_WitnessStop ==
    /\ lastOp.op = "stop"
    /\ ~isMonitoring
    /\ Len(cycles) = 2
    /\ cycles[2].manual

\* C36: the number printed in the header of a message's report (EMAIL #k) is
\* the position of the message in the fetch stream of its cycle.
C36_HeaderIsOrdinal ==
    lastOp.op = "parsed" => lastOp.hdr = lastOp.i

\* C37: when a cycle has resolved (and POST /read-emails has answered
\* 'Successfully processed emails' for a manual one) or has ended its session,
\* every message it fetched has been through its parser callback and, if it
\* parsed, through the end of its classification attempt.
C37_ResolvesAfterProcessing ==
    \A c \in Cycles :
        (cycles[c].settled = "resolved" \/ cycles[c].session = "ended")
            => \A i \in Msgs(c) :
                   cycles[c].msgs[i].parse \in {"failed", "done", "error"}

\* C38: every uid in processedEmails is the uid of a message that a cycle had
\* in its search result, kept as new and was handed by its fetch stream with
\* its attributes; the set changes only in an attributes step, by the uid of
\* the message that step is about: not in a search, an error, a start, a stop,
\* a manual read, a sound test or a classifier test.
C38_State ==
    \A uid \in processedEmails :
        \E c \in Cycles : \E i \in Msgs(c) :
            /\ cycles[c].msgs[i].uid = uid
            /\ cycles[c].msgs[i].attrs
            /\ i <= Len(cycles[c].newEmails)
            /\ cycles[c].newEmails[i] = uid
            /\ uid \notin cycles[c].seenAtStart
            /\ uid \in mailbox

C38_Act ==
    processedEmails' # processedEmails =>
        /\ lastOp'.op = "attributes"
        /\ LET cy == cycles[lastOp'.c] IN
           /\ cy.msgs # <<>>
           /\ processedEmails' = processedEmails \cup {cy.msgs[Len(cy.msgs)].uid}

C38_OnlyFetchedAreRecorded == []C38_State /\ [][C38_Act]_vars

\* a uid was recorded by a fetch; a later cycle's search, a failed connection,
\* a stop and a classifier test added nothing
C38_Witness ==
    /\ processedEmails = {1}
    /\ Len(cycles) = 2
    /\ cycles[1].msgs # <<>>
    /\ cycles[2].msgs = <<>>
    /\ cycles[2].settled = "rejected"
    /\ ~isMonitoring
    /\ lastOp.op = "testOpenAI"
    /\ chains.calls > 1

\* C39: with every mailbox operation of a cycle reporting in the end, every
\* started cycle settles, whether or not its parser callbacks and classifier
\* replies ever come; and once settled its outcome and the answer given for it
\* never change, whatever event of its session follows.
C39_Act ==
    \A c \in Cycles :
        cycles[c].settled # "pending" =>
            /\ cycles'[c].settled = cycles[c].settled
            /\ cycles'[c].answer = cycles[c].answer

C39_SettlesOnce ==
    /\ \A c \in 1..MaxCycles :
         (Len(cycles) >= c) ~> (Len(cycles) >= c /\ cycles[c].settled # "pending")
    /\ [][C39_Act]_vars

\* a manual cycle was rejected by a fetch error and stayed rejected when its
\* stream ended, with the parser callback of its message still to come
C39_Witness ==
    /\ lastOp.op = "fetchEnd"
    /\ cycles[lastOp.c].manual
    /\ cycles[lastOp.c].fetchErr
    /\ cycles[lastOp.c].settled = "rejected"
    /\ cycles[lastOp.c].answer = "Error reading emails"
    /\ cycles[lastOp.c].session = "ended"
    /\ \E i \in Msgs(lastOp.c) : cycles[lastOp.c].msgs[i].parse = "pending"

====
